---- MODULE Spec2Model ----
(***************************************************************************)
(* Model of the metrics API server:                                        *)
(*   server/src/routes/graphql.ts          schema refresh and typed query  *)
(*   server/src/services/MetricService/DbtLocalMetricService.ts            *)
(*   server/src/index.ts                   REST routes /list and /run      *)
(*                                                                         *)
(* Text is a sequence of one-character strings.  A shell command line or   *)
(* an argv element is a sequence of chunks: literal template text is one   *)
(* chunk, a caller-supplied value contributes one chunk per character.     *)
(***************************************************************************)
EXTENDS Integers, Sequences, FiniteSets, TLC

VARIABLES
    stack,      \* router.stack: the layers registered by router.use('/')
    queries,    \* the typed queries in flight, by id
    lastResp,   \* status of the last POST /refresh response (0: none yet)
    warned,     \* number of console.warn(error) lines written by graphqlInit
    thrown,     \* TRUE once an exception escaped graphqlInit
    io          \* the service / REST / resolver call being made and its outcome

vars == <<stack, queries, lastResp, warned, thrown, io>>

(***************************** bounds **************************************)
MaxOut == 2         \* most lines of engine stdout drawn for discovery
MaxPre == 17        \* longest preamble the engine writes before the payload
MaxPayload == 2     \* longest payload drawn for a metric run
MaxName == 2        \* longest caller-supplied metric name
MaxSel == 3         \* most sub-fields selected in one typed query
MaxInits == 3       \* most graphqlInit calls in one run
NumQueries == 1     \* typed queries in one run

(***************************** text ****************************************)
NL == "\n"
QUOTE == "\""
Undefined == <<"\\undefined">>
IsDef(x) == x # Undefined
Truthy(x) == IsDef(x) /\ x # <<>>

WS == {" ", NL}

RECURSIVE SeqsUpTo(_, _)
SeqsUpTo(S, n) ==
    IF n = 0 THEN {<<>>}
    ELSE LET shorter == SeqsUpTo(S, n - 1)
         IN  shorter \cup {Append(s, c) : s \in {t \in shorter : Len(t) = n - 1}, c \in S}

RECURSIVE Flatten(_)
Flatten(ss) == IF ss = <<>> THEN <<>> ELSE Head(ss) \o Flatten(Tail(ss))

RECURSIVE JoinWith(_, _)
JoinWith(ss, sep) ==
    IF ss = <<>> THEN <<>>
    ELSE IF Len(ss) = 1 THEN Head(ss)
    ELSE Head(ss) \o sep \o JoinWith(Tail(ss), sep)

\* String.prototype.trimEnd
RECURSIVE trimEnd(_)
trimEnd(s) ==
    IF s # <<>> /\ s[Len(s)] \in WS THEN trimEnd(SubSeq(s, 1, Len(s) - 1)) ELSE s

\* String.prototype.indexOf: 0-based, -1 when pat does not occur
indexOf(s, pat) ==
    LET hits == {i \in 0..(Len(s) - Len(pat)) : SubSeq(s, i + 1, i + Len(pat)) = pat}
    IN  IF hits = {} THEN -1 ELSE CHOOSE i \in hits : \A j \in hits : i <= j

\* String.prototype.slice(start) for start >= 0
slice(s, start) == SubSeq(s, start + 1, Len(s))

\* s.replace(/c/g, by)
RECURSIVE replaceAll(_, _, _)
replaceAll(s, c, by) ==
    IF s = <<>> THEN <<>>
    ELSE (IF Head(s) = c THEN by ELSE <<Head(s)>>) \o replaceAll(Tail(s), c, by)

\* the lines of s (split at "\n")
RECURSIVE Lines(_)
Lines(s) ==
    LET i == indexOf(s, <<NL>>)
    IN  IF i = -1 THEN <<s>> ELSE <<SubSeq(s, 1, i)>> \o Lines(slice(s, i + 1))

\* s.match(/\{.*\}/g): "." does not match a newline and ".*" is greedy, so each
\* line yields at most one span, from its first "{" to its last "}" behind it.
\* <<>> stands for the null that match returns when nothing matches.
SpanOf(line) ==
    LET opens == {i \in 1..Len(line) : line[i] = "{"}
        first == CHOOSE i \in opens : \A j \in opens : i <= j
        closes == {i \in 1..Len(line) : line[i] = "}" /\ i > first}
        last == CHOOSE i \in closes : \A j \in closes : j <= i
    IN  IF opens = {} \/ closes = {} THEN <<>> ELSE <<SubSeq(line, first, last)>>

matchObjects(s) == Flatten([k \in 1..Len(Lines(s)) |-> SpanOf(Lines(s)[k])])

(***************************** JSON.parse **********************************)
\* JSON.parse over the alphabet of the model: a value is a number (a run of
\* "1"), the empty object, or an array of values; any other text is a
\* SyntaxError.  Results: [ok, val, next]; val is a record tagged by t.
DIGITS == {"1"}
JFail == [ok |-> FALSE, val |-> [t |-> "none"], next |-> 0]

RECURSIVE SkipWs(_, _)
SkipWs(s, i) == IF i <= Len(s) /\ s[i] \in WS THEN SkipWs(s, i + 1) ELSE i

RECURSIVE SkipDigits(_, _)
SkipDigits(s, i) == IF i <= Len(s) /\ s[i] \in DIGITS THEN SkipDigits(s, i + 1) ELSE i

RECURSIVE ParseValue(_, _)
RECURSIVE ParseElems(_, _, _)
ParseValue(s, i) ==
    LET j == SkipWs(s, i)
    IN  IF j > Len(s) THEN JFail
        ELSE IF s[j] \in DIGITS
        THEN [ok |-> TRUE,
              val |-> [t |-> "num", digits |-> SubSeq(s, j, SkipDigits(s, j) - 1)],
              next |-> SkipDigits(s, j)]
        ELSE IF s[j] = "{"
        THEN LET k == SkipWs(s, j + 1)
             IN  IF k <= Len(s) /\ s[k] = "}"
                 THEN [ok |-> TRUE, val |-> [t |-> "obj"], next |-> k + 1]
                 ELSE JFail
        ELSE IF s[j] = "["
        THEN LET k == SkipWs(s, j + 1)
             IN  IF k <= Len(s) /\ s[k] = "]"
                 THEN [ok |-> TRUE, val |-> [t |-> "arr", items |-> <<>>], next |-> k + 1]
                 ELSE ParseElems(s, j + 1, <<>>)
        ELSE JFail

ParseElems(s, i, acc) ==
    LET v == ParseValue(s, i)
        k == SkipWs(s, v.next)
    IN  IF ~v.ok \/ k > Len(s) THEN JFail
        ELSE IF s[k] = ","
        THEN ParseElems(s, k + 1, Append(acc, v.val))
        ELSE IF s[k] = "]"
        THEN [ok |-> TRUE, val |-> [t |-> "arr", items |-> Append(acc, v.val)], next |-> k + 1]
        ELSE JFail

JSONparse(s) ==
    LET v == ParseValue(s, 1)
    IN  IF v.ok /\ SkipWs(s, v.next) > Len(s)
        THEN [ok |-> TRUE, val |-> v.val]
        ELSE [ok |-> FALSE, val |-> [t |-> "none"]]

(***************************** JSON.stringify ******************************)
\* a JavaScript string as JSON text: quotes and newlines are escaped
JsString(v) ==
    <<QUOTE>> \o replaceAll(replaceAll(v, QUOTE, <<"\\\"">>), NL, <<"\\n">>) \o <<QUOTE>>

JsArray(vs) ==
    <<"[">> \o JoinWith([k \in 1..Len(vs) |-> JsString(vs[k])], <<",">>) \o <<"]">>

\* JSON.stringify({metric_name, grain, dimensions, start_date, end_date, format}):
\* a key whose value is undefined is left out
JSONstringify(p) ==
    LET str(key, v) == IF IsDef(v) THEN <<<<QUOTE, key, QUOTE, ":">> \o JsString(v)>> ELSE <<>>
        arr(key, v) == IF v.def THEN <<<<QUOTE, key, QUOTE, ":">> \o JsArray(v.items)>> ELSE <<>>
    IN  <<"{">> \o
        JoinWith(str("metric_name", p.metric_name) \o str("grain", p.grain) \o
                 arr("dimensions", p.dimensions) \o str("start_date", p.start_date) \o
                 str("end_date", p.end_date) \o str("format", p.format), <<",">>) \o
        <<"}">>

(***************************** the engine **********************************)
\* One run of the external engine: its exit code and what it wrote to stdout.
ExecFile(file, argv) == [api |-> "execFileSync", file |-> file, argv |-> argv, cmd |-> <<>>]
ExecShell(cmd) == [api |-> "execSync", file |-> "/bin/sh", argv |-> <<>>, cmd |-> cmd]

Returned(v) == [ok |-> TRUE, val |-> v, err |-> "", msg |-> <<>>]
Threw(kind, m) == [ok |-> FALSE, val |-> [t |-> "none"], err |-> kind, msg |-> m]

\* metric[key] of a parsed element: the values JSON.parse yields in this
\* alphabet (numbers, {}, arrays) have no such property
FieldOf(metric, key) == Undefined

\* if (sel) metrics = metrics.filter(metric => metric[key] === sel)
filterBy(metrics, key, sel) ==
    IF Truthy(sel) THEN SelectSeq(metrics, LAMBDA m : FieldOf(m, key) = sel) ELSE metrics

(***************************** DbtLocalMetricService ***********************)
\* constructor: with profileVariables the profile and target are overwritten
\* and a profiles directory is generated
DbtLocalMetricService(props) ==
    IF props.profileVariables
    THEN [target |-> <<"prod">>, profile |-> <<"mapi_profile">>,
          dbtProfilePath |-> <<"/tmp/_dbt_profile">>]
    ELSE [target |-> props.target, profile |-> props.profile, dbtProfilePath |-> Undefined]

ProfileFlags(self) ==
    (IF Truthy(self.target) THEN <<<<"--target">>, self.target>> ELSE <<>>) \o
    (IF Truthy(self.profile) THEN <<<<"--profile">>, self.profile>> ELSE <<>>) \o
    (IF Truthy(self.dbtProfilePath) THEN <<<<"--profiles-dir">>, self.dbtProfilePath>> ELSE <<>>)

OUTPUT_KEYS ==
    <<"\"name model label description type time_grains dimensions filters unique_id package_name\"">>

\* const select = name ? `metric:${name.replace(/"/g, '')}` : ''
selectOf(name) == IF Truthy(name) THEN <<"metric:">> \o replaceAll(name, QUOTE, <<>>) ELSE <<>>

listMetricsArgv(self, name) ==
    <<<<"ls">>>> \o ProfileFlags(self) \o
    (IF selectOf(name) # <<>> THEN <<<<"--select">>, selectOf(name)>> ELSE <<>>) \o
    <<<<"--resource-type">>, <<"metric">>, <<"--output">>, <<"json">>,
      <<"--output-keys">>, OUTPUT_KEYS>>

\* '[' + stdout.trimEnd().match(/\{.*\}/g)?.toString() + ']'
\* (null?.toString() is undefined, which concatenates as the text "undefined")
listMetricsText(stdout) ==
    LET m == matchObjects(trimEnd(stdout))
    IN  <<"[">> \o
        (IF m = <<>> THEN <<"u", "n", "d", "e", "f", "i", "n", "e", "d">>
                     ELSE JoinWith(m, <<",">>)) \o
        <<"]">>

listMetrics(self, name, selectors, engine) ==
    LET call == ExecFile("dbt", listMetricsArgv(self, name))
        parsed == JSONparse(listMetricsText(engine.stdout))
    IN  [calls |-> <<call>>,
         ret |-> IF engine.exit # 0 THEN Threw("ExecError", engine.stdout)
                 ELSE IF ~parsed.ok THEN Threw("SyntaxError", <<>>)
                 ELSE Returned([t |-> "arr", items |->
                        filterBy(filterBy(filterBy(parsed.val.items,
                            "type", selectors.type), "model", selectors.model),
                            "package_name", selectors.package_name)])]

BREAK_STRING ==
    <<"<", "<", "<", "M", "A", "P", "I", "-", "B", "E", "G", "I", "N", ">", ">", ">", NL>>

queryMetricArgv(self, params) ==
    <<<<"run-operation">>>> \o ProfileFlags(self) \o
    <<<<"dbt_metrics_api.run_metric">>, <<"--args">>, JSONstringify(params)>>

\* raw_output.slice(raw_output.indexOf(BREAK_STRING) + BREAK_STRING.length)
afterBreak(raw_output) == slice(raw_output, indexOf(raw_output, BREAK_STRING) + Len(BREAK_STRING))

\* format = 'json' unless given; every failure in the try block, the engine's
\* or JSON.parse's, is rethrown as new Error(error.stdout)
queryMetric(self, params, engine) ==
    LET p == [params EXCEPT !.format = IF IsDef(@) THEN @ ELSE <<"j", "s", "o", "n">>]
        call == ExecFile("dbt", queryMetricArgv(self, p))
        parsed == JSONparse(afterBreak(engine.stdout))
    IN  [calls |-> <<call>>,
         ret |-> IF engine.exit # 0 THEN Threw("Error", engine.stdout)
                 ELSE IF ~parsed.ok THEN Threw("Error", Undefined)
                 ELSE Returned(parsed.val)]

(***************************** index.ts ************************************)
DBT_PROJECT_PATH == <<"/project">>
DBT_TARGET == <<"dev">>

\* JSON.stringify of a parsed value
RECURSIVE JsonText(_)
JsonText(v) ==
    IF v.t = "num" THEN v.digits
    ELSE IF v.t = "obj" THEN <<"{", "}">>
    ELSE <<"[">> \o JoinWith([k \in 1..Len(v.items) |-> JsonText(v.items[k])], <<",">>) \o <<"]">>

\* the command line handed to execSync by listMetrics
indexListCommand(name) ==
    <<"cd ">> \o DBT_PROJECT_PATH \o
    <<" && dbt ls --resource-type metric --output json --output-keys \"name model label description type time_grains dimensions filters unique_id\" ">> \o
    (IF Truthy(name)
     THEN <<"--select \"metric:">> \o replaceAll(name, QUOTE, <<>>) \o <<QUOTE>>
     ELSE <<>>)

\* '[' + stdout.trimEnd().replace(/\n/g, ',') + ']'
indexListText(stdout) == <<"[">> \o replaceAll(trimEnd(stdout), NL, <<",">>) \o <<"]">>

indexListMetrics(name, selectors, engine) ==
    LET call == ExecShell(indexListCommand(name))
        parsed == JSONparse(indexListText(engine.stdout))
    IN  [calls |-> <<call>>,
         ret |-> IF engine.exit # 0 THEN Threw("ExecError", engine.stdout)
                 ELSE IF ~parsed.ok THEN Threw("SyntaxError", <<>>)
                 ELSE Returned([t |-> "arr", items |->
                        filterBy(filterBy(parsed.val.items, "type", selectors.type),
                                 "model", selectors.model)])]

Response(status, body) == [status |-> status, body |-> body]

\* app.get('/list'): 200 with the serialized list, 404 with the error
getList(query, engine) ==
    LET r == indexListMetrics(query.name, query, engine)
    IN  [calls |-> r.calls, ret |-> r.ret,
         wire |-> IF r.ret.ok THEN <<Response(200, JsonText(r.ret.val))>>
                  ELSE <<Response(404, <<r.ret.err>>)>>,
         escaped |-> FALSE]

\* the command line handed to execSync by app.post('/run')
runCommand(params) ==
    <<"cd ">> \o DBT_PROJECT_PATH \o <<" && dbt run-operation --target ">> \o DBT_TARGET \o
    <<" dbt_metrics_api.run_metric --args '">> \o JSONstringify(params) \o <<"'">>

\* res.send once the headers are out throws ERR_HTTP_HEADERS_SENT: nothing
\* more goes on the wire.  [wire, threw] after one res.status(s).send(b).
send(wire, status, body) ==
    IF wire # <<>> THEN [wire |-> wire, threw |-> TRUE]
    ELSE [wire |-> <<Response(status, body)>>, threw |-> FALSE]

\* app.post('/run'): the two 400 answers do not return, so the handler runs on
postRun(body, accept, engine) ==
    LET format == IF accept = "csv" THEN <<"c", "s", "v">> ELSE <<"j", "s", "o", "n">>
        params == [metric_name |-> body.metric_name, grain |-> body.grain,
                   dimensions |-> body.dimensions, start_date |-> body.start_date,
                   end_date |-> body.end_date, format |-> format]
        s1 == IF ~Truthy(body.metric_name)
              THEN send(<<>>, 400, <<"metric_name is a required property; no metric_name given">>)
              ELSE [wire |-> <<>>, threw |-> FALSE]
        s2 == IF ~Truthy(body.grain)
              THEN send(s1.wire, 400, <<"grain is a required property; no grain given">>)
              ELSE s1
        call == ExecShell(runCommand(params))
        output == slice(engine.stdout, indexOf(engine.stdout, <<NL>>) + 1)
        s3 == IF engine.exit = 0 THEN send(s2.wire, 200, output)
              ELSE [wire |-> s2.wire, threw |-> TRUE]
        s4 == IF s3.threw THEN send(s3.wire, 404, <<"error">>) ELSE s3
    IN  IF s2.threw
        THEN [calls |-> <<>>, wire |-> s2.wire, escaped |-> TRUE, format |-> format]
        ELSE [calls |-> <<call>>, wire |-> s4.wire, escaped |-> s4.threw, format |-> format]

(***************************** specification of the service and REST calls **)
Names == SeqsUpTo({"m", QUOTE, ";"}, MaxName)
RunNames == {<<>>, <<"m">>, <<"m", "'", ";">>}
Grains == {<<"d", "a", "y">>}
Opt(S) == S \cup {Undefined}

\* what the engine may write for `dbt ls`: up to MaxOut lines, each a JSON
\* object, log text, or both, with or without a final newline
OutLines == {<<>>, <<"{", "}">>, <<"x">>, <<"{", "x", "}">>, <<"{", "}", "x">>}
ListOutputs ==
    {JoinWith(ls, <<NL>>) \o tail : ls \in SeqsUpTo(OutLines, MaxOut), tail \in {<<>>, <<NL>>}}

\* what the engine may write for run_metric: a preamble of up to MaxPre
\* characters ending its line, then the marker line or not, then the payload
Preambles == {[i \in 1..k |-> IF i = k THEN NL ELSE "p"] : k \in 0..MaxPre}
Payloads == SeqsUpTo({"1", "x", ","}, MaxPayload)
RunOutputs ==
    {pre \o mark \o pay : pre \in Preambles, mark \in {<<>>, BREAK_STRING}, pay \in Payloads}

Engines(outs) == [exit : {0, 1}, stdout : outs]

SelectorSets ==
    {[type |-> t, model |-> m, package_name |-> k] :
        <<t, m, k>> \in {<<Undefined, Undefined, Undefined>>,
                         <<<<"simple">>, Undefined, Undefined>>,
                         <<Undefined, <<"orders">>, Undefined>>,
                         <<Undefined, Undefined, <<"pkg">>>>}}

PropsSet ==
    {[target |-> Undefined, profile |-> Undefined, profileVariables |-> FALSE],
     [target |-> <<"dev">>, profile |-> <<"local">>, profileVariables |-> FALSE],
     [target |-> <<"dev">>, profile |-> Undefined, profileVariables |-> TRUE]}

DimensionLists == {[def |-> FALSE, items |-> <<>>], [def |-> TRUE, items |-> <<<<"r">>>>]}

NoQuery ==
    [pc |-> "idle", field |-> "", idx |-> 0, arrived |-> 0, inits |-> 0,
     schema |-> 0, schemaFields |-> {}, root |-> 0, rootKeys |-> {}, executed |-> 0,
     resp |-> ""]

RouterIdle ==
    /\ stack = <<>>
    /\ queries = [q \in 1..NumQueries |-> NoQuery]
    /\ lastResp = 0
    /\ warned = 0
    /\ thrown = FALSE

InitApi ==
    /\ RouterIdle
    /\ io = [op |-> "idle"]

\* new DbtLocalMetricService(props).listMetrics(name, selectors)
SvcListMetrics ==
    /\ io.op = "idle"
    /\ \E props \in PropsSet, name \in Opt(Names), selectors \in SelectorSets,
          engine \in Engines(ListOutputs) :
         LET self == DbtLocalMetricService(props)
             r == listMetrics(self, name, selectors, engine)
         IN  io' = [op |-> "svc.listMetrics", self |-> self, name |-> name,
                    selectors |-> selectors, engine |-> engine,
                    calls |-> r.calls, ret |-> r.ret]
    /\ UNCHANGED <<stack, queries, lastResp, warned, thrown>>

\* new DbtLocalMetricService(props).queryMetric(params)
SvcQueryMetric ==
    /\ io.op = "idle"
    /\ \E props \in PropsSet, metric_name \in {<<"m">>, <<"m", ";">>},
          format \in Opt({<<"j", "s", "o", "n">>, <<"c", "s", "v">>}),
          dimensions \in DimensionLists, engine \in Engines(RunOutputs) :
         LET self == DbtLocalMetricService(props)
             params == [metric_name |-> metric_name, grain |-> <<"d", "a", "y">>,
                        dimensions |-> dimensions, start_date |-> Undefined,
                        end_date |-> Undefined, format |-> format]
             r == queryMetric(self, params, engine)
         IN  io' = [op |-> "svc.queryMetric", self |-> self, params |-> params,
                    engine |-> engine, calls |-> r.calls, ret |-> r.ret]
    /\ UNCHANGED <<stack, queries, lastResp, warned, thrown>>

GetList ==
    /\ io.op = "idle"
    /\ \E name \in Opt(Names), selectors \in SelectorSets, engine \in Engines(ListOutputs) :
         LET r == getList([name |-> name, type |-> selectors.type, model |-> selectors.model],
                          engine)
         IN  io' = [op |-> "GET /list", name |-> name, selectors |-> selectors,
                    engine |-> engine, calls |-> r.calls, ret |-> r.ret,
                    wire |-> r.wire, escaped |-> r.escaped]
    /\ UNCHANGED <<stack, queries, lastResp, warned, thrown>>

PostRun ==
    /\ io.op = "idle"
    /\ \E metric_name \in Opt(RunNames), grain \in Opt(Grains), accept \in {"json", "csv"},
          dimensions \in DimensionLists, engine \in Engines(RunOutputs) :
         LET body == [metric_name |-> metric_name, grain |-> grain,
                      dimensions |-> dimensions, start_date |-> Undefined,
                      end_date |-> Undefined]
             r == postRun(body, accept, engine)
         IN  io' = [op |-> "POST /run", body |-> body, accept |-> accept, engine |-> engine,
                    calls |-> r.calls, wire |-> r.wire, escaped |-> r.escaped,
                    format |-> r.format]
    /\ UNCHANGED <<stack, queries, lastResp, warned, thrown>>

NextApi == SvcListMetrics \/ SvcQueryMetric \/ GetList \/ PostRun

SpecApi == InitApi /\ [][NextApi]_vars

(***************************** claims about the service and REST calls ******)
JsonFormat(f) == f = Undefined \/ f = <<"j", "s", "o", "n">>
HasMarker(out) == indexOf(out, BREAK_STRING) # -1
AfterMarker(out) == slice(out, indexOf(out, BREAK_STRING) + Len(BREAK_STRING))
RawText(chars) == [t |-> "text", chars |-> chars]

\* C4: discovery with a name filter that matches nothing (the engine exits 0 and
\* writes no JSON object) returns the empty list and does not fail, in
\* DbtLocalMetricService.listMetrics and in the listMetrics behind GET /list.
C4_NoMatchIsEmptyList ==
    (/\ io.op \in {"svc.listMetrics", "GET /list"}
     /\ Truthy(io.name)
     /\ io.engine.exit = 0
     /\ matchObjects(io.engine.stdout) = <<>>)
    => (io.ret.ok /\ io.ret.val.items = <<>>)

\* C5: when the engine exits 0 and its stdout lacks the marker line, queryMetric
\* in JSON mode fails and returns no parsed result; when the marker is there,
\* only the text behind it is parsed.
C5_NoMarkerIsAnError ==
    (/\ io.op = "svc.queryMetric"
     /\ JsonFormat(io.params.format)
     /\ io.engine.exit = 0)
    => IF HasMarker(io.engine.stdout)
       THEN io.ret.ok => io.ret.val = JSONparse(AfterMarker(io.engine.stdout)).val
       ELSE ~io.ret.ok

\* C7: when the engine exits 0 and writes the marker, format=csv returns the raw
\* text behind the marker, unparsed and without an error for a payload that is
\* no JSON; format=json returns the payload parsed as one JSON value.
C7_CsvIsReturnedRaw ==
    /\ (/\ io.op = "svc.queryMetric"
        /\ io.engine.exit = 0
        /\ HasMarker(io.engine.stdout))
       => IF JsonFormat(io.params.format)
          THEN JSONparse(AfterMarker(io.engine.stdout)).ok
                  => io.ret = Returned(JSONparse(AfterMarker(io.engine.stdout)).val)
          ELSE io.ret = Returned(RawText(AfterMarker(io.engine.stdout)))
    /\ (/\ io.op = "POST /run"
        /\ Truthy(io.body.metric_name) /\ Truthy(io.body.grain)
        /\ io.engine.exit = 0
        /\ HasMarker(io.engine.stdout)
        /\ io.accept = "csv")
       => io.wire = <<Response(200, AfterMarker(io.engine.stdout))>>

\* C8: every run of the engine, on every discovery and execution path, gets its
\* arguments as an argument vector; no caller-supplied value is put into a
\* shell command line.
C8_ArgumentVectorsOnly ==
    io.op \in {"svc.listMetrics", "svc.queryMetric", "GET /list", "POST /run"}
    => \A k \in 1..Len(io.calls) : io.calls[k].api = "execFileSync" /\ io.calls[k].cmd = <<>>

\* C9: a POST /run whose body lacks metric_name or grain is answered 400, with
\* exactly one response, and the engine is not run for it.
C9_MissingFieldIs400 ==
    (/\ io.op = "POST /run"
     /\ (~Truthy(io.body.metric_name) \/ ~Truthy(io.body.grain)))
    => /\ Len(io.wire) = 1
       /\ io.wire[1].status = 400
       /\ io.calls = <<>>

(***************************** graphql.ts: metricResolver *******************)
\* const NON_DIMENSION_FIELDS = [fieldName, 'period']
NON_DIMENSION_FIELDS_periodOnly(fieldName) == {"period"}
NON_DIMENSION_FIELDS(fieldName) == {fieldName, "period"}

\* {...base, ...args}: the keys of args win
Spread(base, args) ==
    [k \in DOMAIN base \cup DOMAIN args |-> IF k \in DOMAIN args THEN args[k] ELSE base[k]]

\* the parameter object metricResolver hands to queryMetric; selections is
\* node.selectionSet?.selections mapped to the field names
metricResolver(args, fieldName, selections) ==
    Spread([metric_name |-> fieldName,
            dimensions |->
                IF selections.def
                THEN [def |-> TRUE,
                      items |-> SelectSeq(selections.items,
                                    LAMBDA field : field \notin NON_DIMENSION_FIELDS(fieldName))]
                ELSE [def |-> FALSE, items |-> <<>>]],
           args)

SubFields == {"period", "revenue", "orders", "region", "channel"}
MetricArgs ==
    {[grain |-> g] : g \in {"day", "month"}} \cup
    {[grain |-> g, start_date |-> "2022-01-01"] : g \in {"day", "month"}} \cup
    {[grain |-> "day", start_date |-> "2022-01-01", end_date |-> "2022-02-01"]}

InitResolver ==
    /\ RouterIdle
    /\ io = [op |-> "idle"]

Resolve ==
    /\ io.op = "idle"
    /\ \E args \in MetricArgs, fieldName \in {"revenue", "orders", "period"},
          items \in SeqsUpTo(SubFields, MaxSel), def \in BOOLEAN :
         /\ def \/ items = <<>>
         /\ io' = [op |-> "metricResolver", args |-> args, fieldName |-> fieldName,
                   selections |-> [def |-> def, items |-> items],
                   request |-> metricResolver(args, fieldName, [def |-> def, items |-> items])]
    /\ UNCHANGED <<stack, queries, lastResp, warned, thrown>>

\* the resolver returns and the next field is resolved
Resolved ==
    /\ io.op = "metricResolver"
    /\ io' = [op |-> "idle"]
    /\ UNCHANGED <<stack, queries, lastResp, warned, thrown>>

NextResolver == Resolve \/ Resolved

SpecResolver == InitResolver /\ [][NextResolver]_vars

RECURSIVE Without(_, _)
Without(S, excluded) ==
    IF S = <<>> THEN <<>>
    ELSE IF Head(S) \in excluded THEN Without(Tail(S), excluded)
    ELSE <<Head(S)>> \o Without(Tail(S), excluded)

\* C6: for every metric field f and every list S of requested sub-fields, the
\* dimensions sent to the engine are exactly the elements of S other than f and
\* "period", in request order, and the request's metric_name is f.
C6_DimensionsAreTheOtherSubFields ==
    (io.op = "metricResolver" /\ io.selections.def)
    => /\ io.request.metric_name = io.fieldName
       /\ io.request.dimensions.items = Without(io.selections.items, {io.fieldName, "period"})

\* the case of the spec: {"period","revenue","region"} on revenue gives ["region"]
C6_Witness ==
    /\ io.op = "metricResolver"
    /\ io.fieldName = "revenue"
    /\ io.selections.items = <<"period", "revenue", "region">>
    /\ io.request.dimensions.items = <<"region">>
    /\ io.request.metric_name = "revenue"

(***************************** graphql.ts: graphqlInit **********************)
Metrics == {"revenue", "orders"}

\* metric.dimensions of a discovered metric
DimensionsOf(metric) == IF metric = "revenue" THEN {"region"} ELSE {"region", "channel"}

\* what listMetrics() does when graphqlInit calls it: it throws, or it returns
\* some metrics, possibly none
Discoveries == {[ok |-> FALSE, metrics |-> {}]} \cup {[ok |-> TRUE, metrics |-> M] : M \in SUBSET Metrics}

\* the attributes of the result type built for one metric
metricToGraphQLType(metric) == {"period", metric} \cup DimensionsOf(metric)

\* try { availableMetrics = listMetrics() } catch (error) { console.warn(error) }
tryListMetrics(discovery) ==
    [availableMetrics |-> IF discovery.ok THEN discovery.metrics ELSE {},
     warned |-> ~discovery.ok,
     thrown |-> FALSE]

\* the layer one graphqlInit registers; build numbers the graphqlInit call that
\* made the schema and the root
Layer(build, availableMetrics) ==
    LET schema == [build |-> build,
                   fields |-> [m \in availableMetrics |-> metricToGraphQLType(m)]]
        root == [build |-> build, resolvers |-> availableMetrics]
    IN  [kind |-> IF root.resolvers # {} THEN "graphqlHTTP" ELSE "fallback",
         schema |-> schema, rootValue |-> root]

\* router.use('/', handler): the layer goes behind those already registered
routerUseReplacing(layers, layer) == <<layer>>
routerUse(layers, layer) == Append(layers, layer)

graphqlInit(layers, discovery) ==
    routerUse(layers, Layer(Len(layers) + 1, tryListMetrics(discovery).availableMetrics))

\* the schema and the rootValue graphqlHTTP was given when layer h was made
schemaOf(layers, h) == layers[h].schema
rootValueOfLatest(layers, h) == layers[Len(layers)].rootValue
rootValueOf(layers, h) == layers[h].rootValue

\* the layer that answers typed queries: the first graphqlHTTP one (0: none),
\* for graphqlHTTP ends the response and never calls next()
Published(layers) ==
    LET hs == {i \in 1..Len(layers) : layers[i].kind = "graphqlHTTP"}
    IN  IF hs = {} THEN 0 ELSE CHOOSE i \in hs : \A j \in hs : i <= j

\* JavaScript runs a handler to completion: while a query walks the layers
\* synchronously nothing else runs
Walking == \E q \in DOMAIN queries : queries[q].pc = "walking"

Init ==
    /\ RouterIdle
    /\ io = [op |-> "idle"]

\* graphqlInit() called by the server itself
GraphqlInit ==
    /\ ~Walking
    /\ Len(stack) < MaxInits
    /\ \E d \in Discoveries :
         /\ stack' = graphqlInit(stack, d)
         /\ warned' = warned + (IF tryListMetrics(d).warned THEN 1 ELSE 0)
         /\ thrown' = (thrown \/ tryListMetrics(d).thrown)
    /\ UNCHANGED <<queries, lastResp, io>>

\* POST /refresh: refreshSchema calls graphqlInit and answers 200
PostRefresh ==
    /\ ~Walking
    /\ Len(stack) < MaxInits
    /\ \E d \in Discoveries :
         /\ stack' = graphqlInit(stack, d)
         /\ warned' = warned + (IF tryListMetrics(d).warned THEN 1 ELSE 0)
         /\ thrown' = (thrown \/ tryListMetrics(d).thrown)
    /\ lastResp' = 200
    /\ UNCHANGED <<queries, io>>

\* a typed query for one field arrives at the router
QueryArrive(q) ==
    /\ ~Walking
    /\ queries[q].pc = "idle"
    /\ \E f \in Metrics :
         queries' = [queries EXCEPT ![q] = [@ EXCEPT !.pc = "walking", !.field = f,
                                               !.idx = 1, !.arrived = Len(stack)]]
    /\ UNCHANGED <<stack, lastResp, warned, thrown, io>>

\* the layer reached is a fallback: function(req, res, next) { graphqlInit(); next() }
QueryFallback(q) ==
    /\ queries[q].pc = "walking"
    /\ queries[q].idx <= Len(stack)
    /\ stack[queries[q].idx].kind = "fallback"
    /\ Len(stack) < MaxInits
    /\ \E d \in Discoveries :
         /\ stack' = graphqlInit(stack, d)
         /\ warned' = warned + (IF tryListMetrics(d).warned THEN 1 ELSE 0)
         /\ thrown' = (thrown \/ tryListMetrics(d).thrown)
    /\ queries' = [queries EXCEPT ![q] = [@ EXCEPT !.idx = @ + 1, !.inits = @ + 1]]
    /\ UNCHANGED <<lastResp, io>>

\* the layer reached is graphqlHTTP: it takes the request and reads its body
QueryDispatch(q) ==
    /\ queries[q].pc = "walking"
    /\ queries[q].idx <= Len(stack)
    /\ stack[queries[q].idx].kind = "graphqlHTTP"
    /\ queries' = [queries EXCEPT ![q] = [@ EXCEPT !.pc = "parsing"]]
    /\ UNCHANGED <<stack, lastResp, warned, thrown, io>>

\* no layer is left: the router is done with the request (404)
QueryFallThrough(q) ==
    /\ queries[q].pc = "walking"
    /\ queries[q].idx > Len(stack)
    /\ queries' = [queries EXCEPT ![q] = [@ EXCEPT !.pc = "done", !.resp = "404"]]
    /\ UNCHANGED <<stack, lastResp, warned, thrown, io>>

\* graphqlHTTP validates the query against its schema
QueryValidate(q) ==
    /\ ~Walking
    /\ queries[q].pc = "parsing"
    /\ LET schema == schemaOf(stack, queries[q].idx)
       IN  queries' = [queries EXCEPT ![q] =
                [@ EXCEPT !.pc = IF queries[q].field \in DOMAIN schema.fields
                                 THEN "validated" ELSE "done",
                          !.resp = IF queries[q].field \in DOMAIN schema.fields
                                   THEN "" ELSE "400",
                          !.schema = schema.build,
                          !.schemaFields = DOMAIN schema.fields]]
    /\ UNCHANGED <<stack, lastResp, warned, thrown, io>>

\* graphqlHTTP executes the query with its rootValue: the field's resolver is
\* rootValue[field]; without one the field resolves to null
QueryExecute(q) ==
    /\ ~Walking
    /\ queries[q].pc = "validated"
    /\ LET root == rootValueOf(stack, queries[q].idx)
       IN  queries' = [queries EXCEPT ![q] =
                [@ EXCEPT !.pc = "done",
                          !.resp = IF queries[q].field \in root.resolvers
                                   THEN "data" ELSE "null",
                          !.root = root.build,
                          !.rootKeys = root.resolvers,
                          !.executed = Len(stack)]]
    /\ UNCHANGED <<stack, lastResp, warned, thrown, io>>

Next ==
    \/ GraphqlInit
    \/ PostRefresh
    \/ \E q \in DOMAIN queries : QueryArrive(q)
    \/ \E q \in DOMAIN queries : QueryFallback(q)
    \/ \E q \in DOMAIN queries : QueryDispatch(q)
    \/ \E q \in DOMAIN queries : QueryFallThrough(q)
    \/ \E q \in DOMAIN queries : QueryValidate(q)
    \/ \E q \in DOMAIN queries : QueryExecute(q)

Spec == Init /\ [][Next]_vars

(***************************** claims about refresh and typed queries *******)
\* the last graphqlHTTP layer among the first n (0: none): the schema of the
\* latest discovery that succeeded with metrics
LastGood(n) ==
    LET hs == {i \in 1..n : stack[i].kind = "graphqlHTTP"}
    IN  IF hs = {} THEN 0 ELSE CHOOSE i \in hs : \A j \in hs : j <= i

Answered(q) == queries[q].pc \in {"validated", "done"} /\ queries[q].schema # 0

\* C1: after a refresh whose discovery returned a non-empty set M2 that differs
\* from the published non-empty M1, every typed query handled afterwards is
\* answered with the schema and bindings built from M2, never those of M1.
C1_QueriesUseTheLatestSchema ==
    \A q \in DOMAIN queries :
        (Answered(q) /\ LastGood(queries[q].arrived) # 0)
        => queries[q].schemaFields = DOMAIN stack[LastGood(queries[q].arrived)].schema.fields

\* C2: when discovery fails during a refresh while a non-empty schema is
\* published, the published schema and bindings keep answering typed queries
\* unchanged and the failure is only logged: no exception leaves refresh().
C2_FailedRefreshKeepsPublished ==
    [][(warned' = warned + 1 /\ Published(stack) # 0)
       => /\ Published(stack') = Published(stack)
          /\ stack'[Published(stack)] = stack[Published(stack)]
          /\ thrown' = FALSE]_vars

\* a query that arrived after a failed refresh was answered by the schema
\* published before it
C2_Witness ==
    \E q \in DOMAIN queries :
        /\ queries[q].pc = "done" /\ queries[q].resp = "data"
        /\ stack[1].kind = "graphqlHTTP"
        /\ Len(stack) >= 2
        /\ warned = Len(stack) - 1
        /\ queries[q].arrived = Len(stack)
        /\ queries[q].schema = 1 /\ queries[q].root = 1

\* C3: under every interleaving of refreshes and typed queries, the schema a
\* query is validated against and the root it is executed with were built by the
\* same graphqlInit from the same discovered metrics.
C3_SchemaAndRootOfOneBuild ==
    \A q \in DOMAIN queries :
        queries[q].root # 0
        => /\ queries[q].schema = queries[q].root
           /\ queries[q].schemaFields = queries[q].rootKeys
           /\ queries[q].resp = "data"

\* a refresh that found metrics ran between the arrival of a query and its
\* execution
C3_Witness ==
    \E q \in DOMAIN queries :
        /\ queries[q].pc = "done" /\ queries[q].resp = "data"
        /\ queries[q].inits = 0
        /\ queries[q].executed > queries[q].arrived
        /\ stack[queries[q].executed].kind = "graphqlHTTP"

\* the graphqlInit calls made by the fallback layers for queries 1..n; the
\* other layers of the stack were registered by refreshes
RECURSIVE InitsByQueries(_)
InitsByQueries(n) == IF n = 0 THEN 0 ELSE queries[n].inits + InitsByQueries(n - 1)

\* C10: a typed query that arrives while no metrics are published triggers at
\* most one discovery and registers at most one handler, so the handlers stay
\* bounded by the refreshes plus the queries.
C10_OneDiscoveryPerQuery ==
    /\ \A q \in DOMAIN queries :
          (queries[q].pc # "idle" /\ LastGood(queries[q].arrived) = 0)
          => queries[q].inits <= 1
    /\ InitsByQueries(NumQueries) <= Cardinality({q \in DOMAIN queries : queries[q].pc # "idle"})

====
